---- MODULE Spec2Model ----
(***************************************************************************)
(* Model of the payment-instruction interpreter of                         *)
(* src/services/payment-processor/parse-instruction.js and of the endpoint *)
(* src/endpoints/payment-instructions/process.js that calls it.            *)
(*                                                                         *)
(* Strings are sequences of one-character strings, so that toUpperCase,    *)
(* split, Number(...) and the character checks are computed character by   *)
(* character as the JavaScript does.  A JavaScript number that comes from  *)
(* Number(token) is a record [nan, m, e] standing for m * 10^e (decimal    *)
(* scientific form, m not divisible by 10), account balances are integers. *)
(* null / undefined is the record Null, a present value v is Some(v).      *)
(***************************************************************************)
EXTENDS Integers, Sequences, FiniteSets, TLC

VARIABLES
    payload,    \* the request body handed to the handler (rc.body)
    now,        \* the clock reading of this request: [day, ms] since the epoch
    pc,         \* "received" before the handler ran, "done" after
    response,   \* what the handler returned or threw
    args,       \* input of a function applied on its own (function-level specifications)
    ret         \* its result

vars == <<payload, now, pc, response, args, ret>>

-----------------------------------------------------------------------------
(* null / undefined and present values *)

Null == [null |-> TRUE]

Some(v) == [null |-> FALSE, v |-> v]

-----------------------------------------------------------------------------
(* Characters and strings *)

\* The element of a one-element set; the({ f(x) : x \in {e} }) is f at the value
\* of e, which is computed once (a const binding)
the(S) == CHOOSE r \in S : TRUE

LowerLetters ==
    <<"a","b","c","d","e","f","g","h","i","j","k","l","m",
      "n","o","p","q","r","s","t","u","v","w","x","y","z">>

UpperLetters ==
    <<"A","B","C","D","E","F","G","H","I","J","K","L","M",
      "N","O","P","Q","R","S","T","U","V","W","X","Y","Z">>

DigitChars == <<"0","1","2","3","4","5","6","7","8","9">>

Range(s) == {s[i] : i \in DOMAIN s}

isLower(ch) == ch \in Range(LowerLetters)

isUpper(ch) == ch \in Range(UpperLetters)

isDigit(ch) == ch \in Range(DigitChars)

DigitVal(ch) == (CHOOSE i \in 1..10 : DigitChars[i] = ch) - 1

\* String.prototype.toUpperCase, on one character (ASCII letters; the other
\* characters of the model's alphabet have no upper-case form)
UpperChar(ch) ==
    IF isLower(ch) THEN UpperLetters[CHOOSE i \in 1..26 : LowerLetters[i] = ch] ELSE ch

toUpperCase(s) == [i \in 1..Len(s) |-> UpperChar(s[i])]

\* Array.prototype.join(sep) on an array of strings
RECURSIVE join(_, _)
join(strs, sep) ==
    IF Len(strs) = 0 THEN <<>>
    ELSE IF Len(strs) = 1 THEN strs[1]
    ELSE strs[1] \o sep \o join(Tail(strs), sep)

\* String.prototype.split(sep) for a one-character separator: the pieces
\* between separators, empty pieces included
RECURSIVE splitFrom(_, _, _)
splitFrom(s, sep, cur) ==
    IF Len(s) = 0 THEN <<cur>>
    ELSE IF s[1] = sep THEN <<cur>> \o splitFrom(Tail(s), sep, <<>>)
    ELSE splitFrom(Tail(s), sep, Append(cur, s[1]))

split(s, sep) == splitFrom(s, sep, <<>>)

\* Array.prototype.slice(from, to) with 0-based indices, to exclusive
slice(arr, from, to) ==
    SubSeq(arr, from + 1, IF to > Len(arr) THEN Len(arr) ELSE to)

\* Array.prototype.includes
includes(arr, x) == \E i \in DOMAIN arr : arr[i] = x

-----------------------------------------------------------------------------
(* JavaScript numbers produced by Number(string) *)

NaN == [nan |-> TRUE, m |-> 0, e |-> 0]

RECURSIVE Normalize(_, _)
Normalize(m, e) ==
    IF m = 0 THEN [nan |-> FALSE, m |-> 0, e |-> 0]
    ELSE IF m % 10 = 0 THEN Normalize(m \div 10, e + 1)
    ELSE [nan |-> FALSE, m |-> m, e |-> e]

RECURSIVE Pow10(_)
Pow10(n) == IF n <= 0 THEN 1 ELSE 10 * Pow10(n - 1)

RECURSIVE DigitsToNat(_)
DigitsToNat(ds) ==
    IF Len(ds) = 0 THEN 0
    ELSE 10 * DigitsToNat(SubSeq(ds, 1, Len(ds) - 1)) + DigitVal(ds[Len(ds)])

allDigits(s) == \A i \in DOMAIN s : isDigit(s[i])

indexOf(s, chars) ==
    IF \E i \in DOMAIN s : s[i] \in chars
    THEN CHOOSE i \in DOMAIN s : s[i] \in chars /\ \A j \in 1..(i - 1) : s[j] \notin chars
    ELSE 0

\* Number(string) (StringToNumber) for strings without white space: the empty
\* string is 0; otherwise an optional sign, a decimal literal
\* (digits[.digits] or .digits) and an optional exponent part; anything else
\* over the model's alphabet is NaN.  (Hexadecimal, octal and binary literals
\* and "Infinity" are not among the tokens the model draws.)
Number(s) ==
    IF Len(s) = 0 THEN Normalize(0, 0)
    ELSE
    LET signed   == s[1] \in {"+", "-"}
        sign     == IF s[1] = "-" THEN -1 ELSE 1
        body     == IF signed THEN Tail(s) ELSE s
        ePos     == indexOf(body, {"e", "E"})
        mant     == IF ePos = 0 THEN body ELSE SubSeq(body, 1, ePos - 1)
        expPart  == IF ePos = 0 THEN <<>> ELSE SubSeq(body, ePos + 1, Len(body))
        expSigned == Len(expPart) > 0 /\ expPart[1] \in {"+", "-"}
        expSign  == IF expSigned /\ expPart[1] = "-" THEN -1 ELSE 1
        expDigits == IF expSigned THEN Tail(expPart) ELSE expPart
        dot      == indexOf(mant, {"."})
        intPart  == IF dot = 0 THEN mant ELSE SubSeq(mant, 1, dot - 1)
        fracPart == IF dot = 0 THEN <<>> ELSE SubSeq(mant, dot + 1, Len(mant))
        mantOk   == allDigits(intPart) /\ allDigits(fracPart)
                    /\ Len(intPart) + Len(fracPart) >= 1
        expOk    == ePos = 0 \/ (Len(expDigits) >= 1 /\ allDigits(expDigits))
    IN  IF mantOk /\ expOk
        THEN Normalize(sign * DigitsToNat(intPart \o fracPart),
                       expSign * DigitsToNat(expDigits) - Len(fracPart))
        ELSE NaN

\* Number.isInteger
isInteger(x) == ~x.nan /\ x.e >= 0

\* An integral number too large for the model's integer arithmetic: 10^7 and
\* above in magnitude (every token of the model has a mantissa below 10^3)
isHuge(x) == ~x.nan /\ x.e > 6

\* The value of an integral number that is not huge
IntOf(x) == x.m * Pow10(x.e)

\* x < n and x > n for a JavaScript number x that is an integer or NaN and a
\* model integer n (|n| < 10^7); comparisons with NaN are false
numLess(x, n) ==
    /\ ~x.nan
    /\ IF isHuge(x) THEN x.m < 0 ELSE IntOf(x) < n

numGreater(x, n) ==
    /\ ~x.nan
    /\ IF isHuge(x) THEN x.m > 0 ELSE IntOf(x) > n

-----------------------------------------------------------------------------
(* Dates: a Date object is [valid, day, ms], the time value split into whole  *)
(* days since 1970-01-01 and the milliseconds of that day; an Invalid Date    *)
(* (time value NaN) has valid = FALSE.                                        *)

InvalidDate == [valid |-> FALSE, day |-> 0, ms |-> 0]

\* Day number of the proleptic Gregorian date y-m-d (m in 1..12), Day(MakeDay)
DaysFromCivil(y, m, d) ==
    LET yy  == IF m <= 2 THEN y - 1 ELSE y
        era == yy \div 400
        yoe == yy - era * 400
        mp  == IF m > 2 THEN m - 3 ELSE m + 9
        doy == (153 * mp + 2) \div 5 + d - 1
        doe == yoe * 365 + yoe \div 4 - yoe \div 100 + doy
    IN  era * 146097 + doe - 719468

\* YearFromTime / MonthFromTime / DateFromTime of a day number
CivilFromDays(z) ==
    LET zz  == z + 719468
        era == zz \div 146097
        doe == zz - era * 146097
        yoe == (doe - doe \div 1460 + doe \div 36524 - doe \div 146096) \div 365
        doy == doe - (365 * yoe + yoe \div 4 - yoe \div 100)
        mp  == (5 * doy + 2) \div 153
        d   == doy - (153 * mp + 2) \div 5 + 1
        m   == IF mp < 10 THEN mp + 3 ELSE mp - 9
    IN  [y |-> yoe + era * 400 + (IF m <= 2 THEN 1 ELSE 0), m |-> m, d |-> d]

\* The Date of year / monthIndex (0-based, may be 12) / day (may be 0), as
\* both new Date(year, monthIndex, day) and Date.UTC(year, monthIndex, day)
\* build it: a year in 0..99 means 1900 + year, month and day overflow carry,
\* and a time value beyond +-100,000,000 days is NaN (TimeClip).  year is a
\* JavaScript number that is an integer.
MakeDate(year, monthIndex, day) ==
    IF isHuge(year) \/ IntOf(year) > 275760 \/ IntOf(year) < -271821
    THEN InvalidDate
    ELSE
    LET y    == IntOf(year)
        yr   == IF 0 <= y /\ y <= 99 THEN 1900 + y ELSE y
        days == DaysFromCivil(yr + monthIndex \div 12, (monthIndex % 12) + 1, 1) + day - 1
    IN  IF days > 100000000 \/ days < -100000000
        THEN InvalidDate
        ELSE [valid |-> TRUE, day |-> days, ms |-> 0]

\* Date.prototype.getDate / getUTCDate: NaN for an Invalid Date
getDate(date) ==
    IF date.valid THEN [nan |-> FALSE, v |-> CivilFromDays(date.day).d]
    ELSE [nan |-> TRUE, v |-> 0]

\* a > b on two Date objects (compares the time values; NaN compares false)
dateGreater(a, b) ==
    /\ a.valid /\ b.valid
    /\ (a.day > b.day \/ (a.day = b.day /\ a.ms > b.ms))

\* n in decimal, zero-padded to width digits
RECURSIVE padDigits(_, _)
padDigits(n, width) ==
    IF width = 0 THEN <<>>
    ELSE Append(padDigits(n \div 10, width - 1), DigitChars[(n % 10) + 1])

\* Date.prototype.toISOString of a valid Date: YYYY-MM-DDTHH:mm:ss.sssZ, the
\* year as +YYYYYY / -YYYYYY when it is outside 0..9999
toISOString(date) ==
    LET c  == CivilFromDays(date.day)
        yr == IF c.y >= 0 /\ c.y <= 9999 THEN padDigits(c.y, 4)
              ELSE IF c.y > 9999 THEN <<"+">> \o padDigits(c.y, 6)
              ELSE <<"-">> \o padDigits(-c.y, 6)
        hh == date.ms \div 3600000
        mm == (date.ms \div 60000) % 60
        ss == (date.ms \div 1000) % 60
    IN  yr \o <<"-">> \o padDigits(c.m, 2) \o <<"-">> \o padDigits(c.d, 2)
           \o <<"T">> \o padDigits(hh, 2) \o <<":">> \o padDigits(mm, 2)
           \o <<":">> \o padDigits(ss, 2) \o <<".">> \o padDigits(date.ms % 1000, 3)
           \o <<"Z">>

-----------------------------------------------------------------------------
(* Status codes and messages (the tables of @app/messages) *)

StatusCode ==
    [ INVALID_AMOUNT           |-> "AM01",
      CURRENCY_MISMATCH        |-> "CU01",
      UNSUPPORTED_CURRENCY     |-> "CU02",
      INSUFFICIENT_FUNDS       |-> "AC01",
      SAME_ACCOUNT_ERROR       |-> "AC02",
      ACCOUNT_NOT_FOUND        |-> "AC03",
      INVALID_ACCOUNT_ID       |-> "AC04",
      INVALID_DATE_FORMAT      |-> "DT01",
      MISSING_REQUIRED_KEYWORD |-> "SY01",
      MALFORMED_INSTRUCTION    |-> "SY03",
      TRANSACTION_SUCCESSFUL   |-> "AP00",
      TRANSACTION_PENDING      |-> "AP02" ]

\* A message is its template's name and the argument it was built with
PaymentMessage(template, arg) == [template |-> template, arg |-> arg]

-----------------------------------------------------------------------------
(* Words of the grammar *)

wDEBIT   == <<"D","E","B","I","T">>
wCREDIT  == <<"C","R","E","D","I","T">>
wFROM    == <<"F","R","O","M">>
wACCOUNT == <<"A","C","C","O","U","N","T">>
wFOR     == <<"F","O","R">>
wTO      == <<"T","O">>
wON      == <<"O","N">>
SP       == <<" ">>

cNGN == <<"N","G","N">>
cUSD == <<"U","S","D">>
cGBP == <<"G","B","P">>
cGHS == <<"G","H","S">>

-----------------------------------------------------------------------------
(* Result values *)

Ok(value) == [isOk |-> TRUE, value |-> value]

Err(code, message) == [isOk |-> FALSE, error |-> [code |-> code, message |-> message]]

isErr(result) == result.isOk = FALSE

-----------------------------------------------------------------------------
(* The request schema *)

\* String.prototype.trim on the white space the model draws (blanks)
RECURSIVE trimStart(_)
trimStart(s) == IF Len(s) > 0 /\ s[1] = " " THEN trimStart(Tail(s)) ELSE s

RECURSIVE trimEnd(_)
trimEnd(s) ==
    IF Len(s) > 0 /\ s[Len(s)] = " " THEN trimEnd(SubSeq(s, 1, Len(s) - 1)) ELSE s

trim(s) == trimEnd(trimStart(s))

\* validator.validate(paymentData, parsedInstructionSpec): the data as the
\* schema hands it on - account ids and the instruction trimmed, account
\* currencies upper-cased.  (Payloads that violate the schema's shape, a
\* negative balance or an empty id or instruction, are rejected by the
\* validator before the interpreter runs and are not drawn.)
validate(paymentData) ==
    [ accounts |->
          [i \in 1..Len(paymentData.accounts) |->
              [ id       |-> trim(paymentData.accounts[i].id),
                balance  |-> paymentData.accounts[i].balance,
                currency |-> toUpperCase(paymentData.accounts[i].currency) ]],
      instruction |-> trim(paymentData.instruction) ]

-----------------------------------------------------------------------------
(* Error Context Builder *)

\* Reading a property of undefined: the TypeError JavaScript raises
TypeError == [kind |-> "threw", code |-> "TypeError", message |-> Null, context |-> Null]

\* Mutant of isSyntaxErrorCode: the missing-keyword code left out of the test
isSyntaxErrorCodeMalformedOnly(errorCode) ==
    errorCode = StatusCode.MALFORMED_INSTRUCTION

\* The test of lines 39-42: is this a syntax-error code
isSyntaxErrorCode(errorCode) ==
    \/ errorCode = StatusCode.MISSING_REQUIRED_KEYWORD
    \/ errorCode = StatusCode.MALFORMED_INSTRUCTION

\* Mutant of contextAccounts: the balance reported is not the one supplied
contextAccountsZeroed(accounts) ==
    [i \in 1..Len(accounts) |->
        [ id             |-> accounts[i].id,
          balance        |-> 0,
          balance_before |-> accounts[i].balance,
          currency       |-> accounts[i].currency ]]

\* lines 66-71: the accounts of an error context, balances as supplied
contextAccounts(accounts) ==
    [i \in 1..Len(accounts) |->
        [ id             |-> accounts[i].id,
          balance        |-> accounts[i].balance,
          balance_before |-> accounts[i].balance,
          currency       |-> accounts[i].currency ]]

\* throwAppErrorWithContext: the error throwAppError raises, with its context.
\* instructionData and accounts are Null when the caller passes none.
throwAppErrorWithContext(errorCode, errorMessage, instructionData, accounts) ==
    IF isSyntaxErrorCode(errorCode)
    THEN [ kind    |-> "threw",
           code    |-> errorCode,
           message |-> Some(errorMessage),
           context |-> Some(
             [ type           |-> Null,
               amount         |-> Null,
               currency       |-> Null,
               debit_account  |-> Null,
               credit_account |-> Null,
               execute_by     |-> Null,
               status         |-> "failed",
               status_reason  |-> errorMessage,
               status_code    |-> errorCode,
               accounts       |-> <<>> ]) ]
    ELSE IF instructionData = Null \/ accounts = Null
    THEN TypeError
    ELSE [ kind    |-> "threw",
           code    |-> errorCode,
           message |-> Some(errorMessage),
           context |-> Some(
             [ type           |-> Some(instructionData.transactionType),
               amount         |-> Some(instructionData.amount),
               currency       |-> Some(instructionData.currency),
               debit_account  |-> Some(instructionData.debitAccountId),
               credit_account |-> Some(instructionData.creditAccountId),
               execute_by     |-> Null,
               status         |-> "failed",
               status_reason  |-> errorMessage,
               status_code    |-> errorCode,
               accounts       |-> contextAccounts(accounts.v) ]) ]

-----------------------------------------------------------------------------
(* Account Resolver *)

\* Array.prototype.filter, keeping the order
RECURSIVE filterAccounts(_, _)
filterAccounts(accounts, ids) ==
    IF Len(accounts) = 0 THEN <<>>
    ELSE (IF includes(ids, accounts[1].id) THEN <<accounts[1]>> ELSE <<>>)
         \o filterAccounts(Tail(accounts), ids)

\* Mutant of resolveInstructionAccounts: the credit id is looked for first
resolveInstructionAccountsCreditFirst(allAccounts, instructionData) ==
    LET requiredAccountIds == <<instructionData.debitAccountId, instructionData.creditAccountId>>
        involvedAccounts   == filterAccounts(allAccounts, requiredAccountIds)
        foundIds           == [i \in 1..Len(involvedAccounts) |-> involvedAccounts[i].id]
        missingId ==
            IF ~includes(foundIds, instructionData.creditAccountId)
            THEN Some(instructionData.creditAccountId)
            ELSE IF ~includes(foundIds, instructionData.debitAccountId)
            THEN Some(instructionData.debitAccountId)
            ELSE Null
    IN  IF missingId # Null /\ Len(missingId.v) > 0
        THEN Err(StatusCode.ACCOUNT_NOT_FOUND, PaymentMessage("ACCOUNT_NOT_FOUND", missingId.v))
        ELSE Ok(involvedAccounts)

resolveInstructionAccounts(allAccounts, instructionData) ==
    LET requiredAccountIds == <<instructionData.debitAccountId, instructionData.creditAccountId>>
        involvedAccounts   == filterAccounts(allAccounts, requiredAccountIds)
        foundIds           == [i \in 1..Len(involvedAccounts) |-> involvedAccounts[i].id]
        missingId ==
            IF ~includes(foundIds, instructionData.debitAccountId)
            THEN Some(instructionData.debitAccountId)
            ELSE IF ~includes(foundIds, instructionData.creditAccountId)
            THEN Some(instructionData.creditAccountId)
            ELSE Null
    IN  \* a non-empty string is truthy; an id is a token and so never empty
        IF missingId # Null /\ Len(missingId.v) > 0
        THEN Err(StatusCode.ACCOUNT_NOT_FOUND, PaymentMessage("ACCOUNT_NOT_FOUND", missingId.v))
        ELSE Ok(involvedAccounts)

-----------------------------------------------------------------------------
(* Semantic Validator *)

isAllowedIdChar(ch) ==
    isLower(ch) \/ isUpper(ch) \/ isDigit(ch) \/ ch \in {"-", ".", "@"}

validateAccountId(accountId) ==
    IF \E i \in DOMAIN accountId : ~isAllowedIdChar(accountId[i])
    THEN Err(StatusCode.INVALID_ACCOUNT_ID, PaymentMessage("INVALID_ACCOUNT_ID", accountId))
    ELSE Ok(accountId)

validateCurrency(currency) ==
    IF ~includes(<<cNGN, cUSD, cGBP, cGHS>>, toUpperCase(currency))
    THEN Err(StatusCode.UNSUPPORTED_CURRENCY, PaymentMessage("UNSUPPORTED_CURRENCY", currency))
    ELSE Ok(toUpperCase(currency))

\* The first failing check of a list of checks applied in order, or Null
RECURSIVE firstErr(_)
firstErr(checks) ==
    IF Len(checks) = 0 THEN Null
    ELSE IF isErr(checks[1]) THEN Some(checks[1])
    ELSE firstErr(Tail(checks))

validateInvolvedAccounts(accounts) ==
    LET idCheck == firstErr([i \in 1..Len(accounts) |-> validateAccountId(accounts[i].id)])
        firstAccountCurrency  == accounts[1].currency
        secondAccountCurrency == accounts[2].currency
        currencyCheck ==
            firstErr(<<validateCurrency(firstAccountCurrency),
                       validateCurrency(secondAccountCurrency)>>)
    IN  IF idCheck # Null THEN idCheck.v
        ELSE IF currencyCheck # Null THEN currencyCheck.v
        ELSE IF firstAccountCurrency # secondAccountCurrency
        THEN Err(StatusCode.CURRENCY_MISMATCH, PaymentMessage("CURRENCY_MISMATCH", <<>>))
        ELSE Ok(accounts)

-----------------------------------------------------------------------------
(* Tokenizer *)

\* The white-space characters of the tokenizer's list that the model draws
whitespaceCharacters == {" ", "\t", "\n", "\r", "\f"}

getPaymentInstructionParts(instruction) ==
    LET normalized ==
            [i \in 1..Len(instruction) |->
                IF instruction[i] \in whitespaceCharacters THEN " " ELSE instruction[i]]
    IN  SelectSeq(split(normalized, " "), LAMBDA part : Len(part) > 0)

-----------------------------------------------------------------------------
(* Grammar Parser *)

\* parts[i] with the 0-based index of the source
at(parts, i) == parts[i + 1]

\* The DEBIT branch: FROM ACCOUNT <debit> FOR CREDIT TO ACCOUNT <credit>
parseDebitForm(parts) ==
    LET fromKeywordPosition == 3
        debitAccountIdKeywordPosition == fromKeywordPosition + 2
    IN  IF toUpperCase(join(slice(parts, fromKeywordPosition, fromKeywordPosition + 2), SP))
             # wFROM \o SP \o wACCOUNT
        THEN Err(StatusCode.MISSING_REQUIRED_KEYWORD,
                 PaymentMessage("MISSING_REQUIRED_KEYWORD", wFROM \o SP \o wACCOUNT))
        ELSE IF toUpperCase(join(slice(parts, debitAccountIdKeywordPosition + 1,
                                       debitAccountIdKeywordPosition + 5), SP))
                  # wFOR \o SP \o wCREDIT \o SP \o wTO \o SP \o wACCOUNT
        THEN Err(StatusCode.MISSING_REQUIRED_KEYWORD,
                 PaymentMessage("MISSING_REQUIRED_KEYWORD",
                                wFOR \o SP \o wCREDIT \o SP \o wTO \o SP \o wACCOUNT))
        ELSE Ok([ debitAccountId  |-> at(parts, debitAccountIdKeywordPosition),
                  creditAccountId |-> at(parts, debitAccountIdKeywordPosition + 5) ])

\* Mutant of parseCreditForm: the two ids read from each other's position
parseCreditFormSwapped(parts) ==
    IF toUpperCase(join(slice(parts, 3, 5), SP)) # wTO \o SP \o wACCOUNT
    THEN Err(StatusCode.MISSING_REQUIRED_KEYWORD,
             PaymentMessage("MISSING_REQUIRED_KEYWORD", wTO \o SP \o wACCOUNT))
    ELSE IF toUpperCase(join(slice(parts, 6, 10), SP))
              # wFOR \o SP \o wDEBIT \o SP \o wFROM \o SP \o wACCOUNT
    THEN Err(StatusCode.MISSING_REQUIRED_KEYWORD,
             PaymentMessage("MISSING_REQUIRED_KEYWORD",
                            wFOR \o SP \o wDEBIT \o SP \o wFROM \o SP \o wACCOUNT))
    ELSE Ok([debitAccountId |-> at(parts, 5), creditAccountId |-> at(parts, 10)])

\* The CREDIT branch: TO ACCOUNT <credit> FOR DEBIT FROM ACCOUNT <debit>
parseCreditForm(parts) ==
    LET toKeywordPosition == 3
        creditAccountIdKeywordPosition == toKeywordPosition + 2
    IN  IF toUpperCase(join(slice(parts, toKeywordPosition, toKeywordPosition + 2), SP))
             # wTO \o SP \o wACCOUNT
        THEN Err(StatusCode.MISSING_REQUIRED_KEYWORD,
                 PaymentMessage("MISSING_REQUIRED_KEYWORD", wTO \o SP \o wACCOUNT))
        ELSE IF toUpperCase(join(slice(parts, creditAccountIdKeywordPosition + 1,
                                       creditAccountIdKeywordPosition + 5), SP))
                  # wFOR \o SP \o wDEBIT \o SP \o wFROM \o SP \o wACCOUNT
        THEN Err(StatusCode.MISSING_REQUIRED_KEYWORD,
                 PaymentMessage("MISSING_REQUIRED_KEYWORD",
                                wFOR \o SP \o wDEBIT \o SP \o wFROM \o SP \o wACCOUNT))
        ELSE Ok([ debitAccountId  |-> at(parts, creditAccountIdKeywordPosition + 5),
                  creditAccountId |-> at(parts, creditAccountIdKeywordPosition) ])

\* The date clause of lines 308-318: Ok(date) with date Null when there is
\* no clause, or the missing-ON error
parseDateClause(parts) ==
    IF Len(parts) > 11
    THEN LET dateKeywordPosition == Len(parts) - 1
         IN  IF at(parts, dateKeywordPosition - 1) # wON
             THEN Err(StatusCode.MISSING_REQUIRED_KEYWORD,
                      PaymentMessage("MISSING_REQUIRED_KEYWORD", wON))
             ELSE Ok(Some(at(parts, dateKeywordPosition)))
    ELSE Ok(Null)

parseInstructionParts(parts) ==
    IF Len(parts) < 11 \/ Len(parts) > 13
    THEN Err(StatusCode.MALFORMED_INSTRUCTION, PaymentMessage("MALFORMED_INSTRUCTION", <<>>))
    ELSE
    LET transactionTypeKeyword == toUpperCase(at(parts, 0))
        amount   == Number(at(parts, 1))
        currency == toUpperCase(at(parts, 2))
        ids      == IF transactionTypeKeyword = wDEBIT
                    THEN parseDebitForm(parts) ELSE parseCreditForm(parts)
        date     == parseDateClause(parts)
    IN  IF ~includes(<<wDEBIT, wCREDIT>>, transactionTypeKeyword)
        THEN Err(StatusCode.MISSING_REQUIRED_KEYWORD,
                 PaymentMessage("MISSING_REQUIRED_KEYWORD", <<"DEBIT or CREDIT">>))
        ELSE IF isErr(ids) THEN ids
        ELSE IF isErr(date) THEN date
        ELSE Ok([ transactionType |-> transactionTypeKeyword,
                  amount          |-> amount,
                  currency        |-> currency,
                  debitAccountId  |-> ids.value.debitAccountId,
                  creditAccountId |-> ids.value.creditAccountId,
                  date            |-> date.value ])

-----------------------------------------------------------------------------
(* Date validation *)

validateDate(dateString) ==
    LET invalidDateFormatError ==
            Err(StatusCode.INVALID_DATE_FORMAT, PaymentMessage("INVALID_DATE_FORMAT", dateString))
    IN  IF Len(dateString) # 10 THEN invalidDateFormatError
        ELSE IF at(dateString, 4) # "-" \/ at(dateString, 7) # "-" THEN invalidDateFormatError
        ELSE
        LET pieces == split(dateString, "-")
            year   == Number(pieces[1])
            month  == Number(pieces[2])
            day    == Number(pieces[3])
        IN  IF ~isInteger(year) \/ ~isInteger(month) \/ ~isInteger(day)
            THEN invalidDateFormatError
            ELSE IF numLess(month, 1) \/ numGreater(month, 12)
                    \/ numLess(day, 1) \/ numGreater(day, 31)
            THEN invalidDateFormatError
            ELSE
            LET daysInMonth == getDate(MakeDate(year, IntOf(month), 0))
            IN  IF ~daysInMonth.nan /\ IntOf(day) > daysInMonth.v
                THEN invalidDateFormatError
                ELSE Ok(MakeDate(year, IntOf(month) - 1, IntOf(day)))

validateInstructionData(instructionData) ==
    LET debitAccountId  == instructionData.debitAccountId
        creditAccountId == instructionData.creditAccountId
        amount          == instructionData.amount
        currency        == instructionData.currency
        date            == instructionData.date
        debitAccountCheck  == validateAccountId(debitAccountId)
        creditAccountCheck == validateAccountId(creditAccountId)
        currencyCheck      == validateCurrency(currency)
        \* if (date): a token is a non-empty string, which is truthy
        hasDate   == date # Null /\ Len(date.v) > 0
        dateCheck == validateDate(date.v)
    IN  IF isErr(debitAccountCheck) THEN debitAccountCheck
        ELSE IF isErr(creditAccountCheck) THEN creditAccountCheck
        ELSE IF creditAccountId = debitAccountId
        THEN Err(StatusCode.SAME_ACCOUNT_ERROR, PaymentMessage("SAME_ACCOUNT_ERROR", <<>>))
        ELSE IF ~isInteger(amount) \/ ~numGreater(amount, 0)
        THEN Err(StatusCode.INVALID_AMOUNT, PaymentMessage("INVALID_AMOUNT", amount))
        ELSE IF isErr(currencyCheck) THEN currencyCheck
        ELSE IF hasDate /\ isErr(dateCheck) THEN dateCheck
        ELSE Ok([ transactionType |-> instructionData.transactionType,
                  debitAccountId  |-> debitAccountId,
                  creditAccountId |-> creditAccountId,
                  amount          |-> amount,
                  currency        |-> currency,
                  date            |-> IF hasDate THEN Some(dateCheck.value) ELSE Null ])

-----------------------------------------------------------------------------
(* Execution Engine *)

\* isAfterToday(date) when the clock reads clock
isAfterToday(date, clock) ==
    LET c     == CivilFromDays(clock.day)
        today == MakeDate(Normalize(c.y, 0), c.m - 1, c.d)
    IN  dateGreater(date, today)

\* Array.prototype.find by id: the first account with that id
find(accounts, id) ==
    accounts[CHOOSE i \in DOMAIN accounts :
                 accounts[i].id = id /\ \A j \in 1..(i - 1) : accounts[j].id # id]

\* Mutant of insufficientFunds: only an empty debit account is refused
insufficientFundsEmptyOnly(debitAccount, amount) == debitAccount.balance <= 0

\* line 442: debitAccount.balance < instructionParts.amount
insufficientFunds(debitAccount, amount) == numGreater(amount, debitAccount.balance)

\* line 449
shouldExecuteNow(date, clock) == date = Null \/ ~isAfterToday(date.v, clock)

\* Mutant of finalBalances: the credit account is not credited
finalBalancesNoCredit(debitAccount, creditAccount, amount, executeNow, id) ==
    IF id = creditAccount.id
    THEN creditAccount.balance
    ELSE (IF executeNow THEN debitAccount.balance - IntOf(amount) ELSE debitAccount.balance)

\* lines 451-458: the object of final balances, read at id (of two equal keys
\* the later one, the credit account's, stands)
finalBalances(debitAccount, creditAccount, amount, executeNow, id) ==
    IF id = creditAccount.id
    THEN (IF executeNow THEN creditAccount.balance + IntOf(amount) ELSE creditAccount.balance)
    ELSE (IF executeNow THEN debitAccount.balance - IntOf(amount) ELSE debitAccount.balance)

\* line 473
executeBy(date, executeNow) ==
    IF executeNow THEN Null ELSE Some(split(toISOString(date.v), "T")[1])

\* Mutant of executeInstruction: the funds check made only when the transfer
\* executes now
executeInstructionFundsWhenDue(instructionParts, accounts, clock) ==
    LET outcome(debitAccount, creditAccount, executeNow) ==
            IF executeNow /\ insufficientFunds(debitAccount, instructionParts.amount)
            THEN Err(StatusCode.INSUFFICIENT_FUNDS,
                     PaymentMessage("INSUFFICIENT_FUNDS", debitAccount.id))
            ELSE Ok(
              [ type           |-> Some(instructionParts.transactionType),
                amount         |-> Some(instructionParts.amount),
                currency       |-> Some(instructionParts.currency),
                debit_account  |-> Some(debitAccount.id),
                credit_account |-> Some(creditAccount.id),
                execute_by     |-> executeBy(instructionParts.date, executeNow),
                status         |-> IF executeNow THEN "successful" ELSE "pending",
                status_code    |-> IF executeNow THEN StatusCode.TRANSACTION_SUCCESSFUL
                                   ELSE StatusCode.TRANSACTION_PENDING,
                accounts       |->
                    [i \in 1..Len(accounts) |->
                        [ id             |-> accounts[i].id,
                          balance        |-> finalBalances(debitAccount, creditAccount,
                                                           instructionParts.amount,
                                                           executeNow, accounts[i].id),
                          balance_before |-> accounts[i].balance,
                          currency       |-> toUpperCase(accounts[i].currency) ]] ])
    IN  IF instructionParts.currency # accounts[1].currency
        THEN Err(StatusCode.CURRENCY_MISMATCH,
                 PaymentMessage("INSTRUCTION_CURRENCY_MISMATCH",
                                <<accounts[1].currency, instructionParts.currency>>))
        ELSE the({ outcome(debitAccount, creditAccount, executeNow) :
                     debitAccount  \in {find(accounts, instructionParts.debitAccountId)},
                     creditAccount \in {find(accounts, instructionParts.creditAccountId)},
                     executeNow    \in {shouldExecuteNow(instructionParts.date, clock)} })

executeInstruction(instructionParts, accounts, clock) ==
    LET outcome(debitAccount, creditAccount, executeNow) ==
            IF insufficientFunds(debitAccount, instructionParts.amount)
            THEN Err(StatusCode.INSUFFICIENT_FUNDS,
                     PaymentMessage("INSUFFICIENT_FUNDS", debitAccount.id))
            ELSE Ok(
              [ type           |-> Some(instructionParts.transactionType),
                amount         |-> Some(instructionParts.amount),
                currency       |-> Some(instructionParts.currency),
                debit_account  |-> Some(debitAccount.id),
                credit_account |-> Some(creditAccount.id),
                execute_by     |-> executeBy(instructionParts.date, executeNow),
                status         |-> IF executeNow THEN "successful" ELSE "pending",
                status_code    |-> IF executeNow THEN StatusCode.TRANSACTION_SUCCESSFUL
                                   ELSE StatusCode.TRANSACTION_PENDING,
                accounts       |->
                    [i \in 1..Len(accounts) |->
                        [ id             |-> accounts[i].id,
                          balance        |-> finalBalances(debitAccount, creditAccount,
                                                           instructionParts.amount,
                                                           executeNow, accounts[i].id),
                          balance_before |-> accounts[i].balance,
                          currency       |-> toUpperCase(accounts[i].currency) ]] ])
    IN  IF instructionParts.currency # accounts[1].currency
        THEN Err(StatusCode.CURRENCY_MISMATCH,
                 PaymentMessage("INSTRUCTION_CURRENCY_MISMATCH",
                                <<accounts[1].currency, instructionParts.currency>>))
        ELSE the({ outcome(debitAccount, creditAccount, executeNow) :
                     debitAccount  \in {find(accounts, instructionParts.debitAccountId)},
                     creditAccount \in {find(accounts, instructionParts.creditAccountId)},
                     executeNow    \in {shouldExecuteNow(instructionParts.date, clock)} })

-----------------------------------------------------------------------------
(* The pipeline *)

\* lines 508-539: the semantic checks, the account checks and the execution,
\* on the parsed instruction and the involved accounts
validateAndExecute(instructionData, involvedAccounts, clock) ==
    LET executed(validatedInstructionData, executionResult) ==
            IF isErr(executionResult)
            THEN throwAppErrorWithContext(executionResult.error.code,
                                          executionResult.error.message,
                                          validatedInstructionData, Some(involvedAccounts))
            ELSE [kind |-> "returned", value |-> executionResult.value]
        validated(validateInstructionDataCheck) ==
            LET involvedAccountsCheck == validateInvolvedAccounts(involvedAccounts)
            IN  IF isErr(validateInstructionDataCheck)
                THEN throwAppErrorWithContext(validateInstructionDataCheck.error.code,
                                              validateInstructionDataCheck.error.message,
                                              instructionData, Some(involvedAccounts))
                ELSE IF isErr(involvedAccountsCheck)
                THEN throwAppErrorWithContext(involvedAccountsCheck.error.code,
                                              involvedAccountsCheck.error.message,
                                              instructionData, Some(involvedAccounts))
                ELSE the({ executed(validateInstructionDataCheck.value, executionResult) :
                             executionResult \in
                                 {executeInstruction(validateInstructionDataCheck.value,
                                                     involvedAccounts, clock)} })
    IN  the({ validated(validateInstructionDataCheck) :
                validateInstructionDataCheck \in {validateInstructionData(instructionData)} })

processPaymentInstruction(paymentData, clock) ==
    LET parsed(data, instructionDataResult) ==
            LET instructionData        == instructionDataResult.value
                involvedAccountsResult ==
                    resolveInstructionAccounts(data.accounts, instructionData)
            IN  IF isErr(instructionDataResult)
                THEN throwAppErrorWithContext(instructionDataResult.error.code,
                                              instructionDataResult.error.message, Null, Null)
                ELSE IF isErr(involvedAccountsResult)
                THEN throwAppErrorWithContext(involvedAccountsResult.error.code,
                                              involvedAccountsResult.error.message,
                                              instructionData, Some(<<>>))
                ELSE the({ validateAndExecute(instructionData, involvedAccounts, clock) :
                             involvedAccounts \in {involvedAccountsResult.value} })
        received(data) ==
            the({ parsed(data, instructionDataResult) :
                    instructionDataResult \in
                        {parseInstructionParts(getPaymentInstructionParts(data.instruction))} })
    IN  the({ received(data) : data \in {validate(paymentData)} })

-----------------------------------------------------------------------------
(* The endpoint *)

\* handler(rc, helpers) of process.js on rc.body = body: the service's result
\* wrapped as a 200 response, or the error the service threw
handlerResult(body, clock) ==
    LET respond(outcome) ==
            IF outcome.kind = "returned"
            THEN [kind |-> "returned", status |-> 200, data |-> outcome.value]
            ELSE outcome
    IN  the({ respond(outcome) : outcome \in {processPaymentInstruction(body, clock)} })

-----------------------------------------------------------------------------
(* Bounds and the inputs drawn *)

MaxAccounts == 3

MaxBalance == 10

\* account ids
idA     == <<"a">>
idB     == <<"b">>
idUpA   == <<"A">>
idBang  == <<"b","!">>
idZ     == <<"z">>

\* a currency outside the supported list, and a lower-case spelling
cEUR    == <<"E","U","R">>
cLowUSD == <<"u","s","d">>

\* amount tokens: 5, 10 (as 1e1), 20, 1.5, -5
tFive    == <<"5">>
tTen     == <<"1","e","1">>
tTwenty  == <<"2","0">>
tOneHalf == <<"1",".","5">>
tMinus   == <<"-","5">>

\* date tokens
dPast     == <<"2","0","2","4","-","0","1","-","1","5">>
dToday    == <<"2","0","2","6","-","1","2","-","3","0">>
dTomorrow == <<"2","0","2","6","-","1","2","-","3","1">>
dNextYear == <<"2","0","2","7","-","0","1","-","0","1">>
dFeb30    == <<"2","0","2","6","-","0","2","-","3","0">>
dYear50   == <<"0","0","5","0","-","0","1","-","0","1">>
dExpYear  == <<"1","e","0","5","-","0","1","-","0","1">>
dFarYear  == <<"3","e","0","5","-","0","1","-","0","1">>

\* The clock readings drawn: 2026-12-30 and the day after, at midnight and at noon
BaseDay == DaysFromCivil(2026, 12, 30)

Clocks == {[day |-> BaseDay + k, ms |-> t] : k \in {0, 1}, t \in {0, 43200000}}

Account(id, balance, currency) == [id |-> id, balance |-> balance, currency |-> currency]

\* The accounts a request's list is drawn from
AccountPool ==
    { Account(idA, MaxBalance, cUSD),
      Account(idA, 0, cLowUSD),
      Account(idB, MaxBalance \div 2, cUSD),
      Account(idB, 0, cGBP),
      Account(idBang, MaxBalance, cUSD) }

RECURSIVE SeqsUpTo(_, _)
SeqsUpTo(S, n) ==
    IF n = 0 THEN {<<>>}
    ELSE LET shorter == SeqsUpTo(S, n - 1)
         IN  shorter \cup {Append(q, x) : q \in {r \in shorter : Len(r) = n - 1}, x \in S}

AccountLists == SeqsUpTo(AccountPool, MaxAccounts) \ {<<>>}

\* The two sentence forms, with an optional date clause (a sequence of tokens)
DebitTokens(amt, cur, d, c, clause) ==
    <<wDEBIT, amt, cur, wFROM, wACCOUNT, d, wFOR, wCREDIT, wTO, wACCOUNT, c>> \o clause

CreditTokens(amt, cur, d, c, clause) ==
    <<wCREDIT, amt, cur, wTO, wACCOUNT, c, wFOR, wDEBIT, wFROM, wACCOUNT, d>> \o clause

FormTokens(type, amt, cur, d, c, clause) ==
    IF type = wDEBIT THEN DebitTokens(amt, cur, d, c, clause)
    ELSE CreditTokens(amt, cur, d, c, clause)

\* Well-formed instructions of both forms, and a few that are not
Instructions ==
    { join(FormTokens(type, amt, cur, pair[1], pair[2], clause), SP) :
        type \in {wDEBIT, wCREDIT},
        amt \in {tFive, tTen, tTwenty, tOneHalf},
        cur \in {cUSD, cGBP, cEUR},
        pair \in {<<idA, idB>>, <<idB, idA>>, <<idA, idA>>, <<idA, idZ>>, <<idA, idBang>>},
        clause \in {<<>>, <<wON, dNextYear>>, <<wON, dFeb30>>} }
    \cup
    { join(<<<<"S","E","N","D">>, tFive, cUSD, wTO, wACCOUNT, idB>>, SP),
      join(<<<<"S","E","N","D">>, tFive, cUSD, wFROM, wACCOUNT, idA,
             wFOR, wCREDIT, wTO, wACCOUNT, idB>>, SP),
      join(<<wDEBIT, tFive, cUSD, wTO, wACCOUNT, idA,
             wFOR, wCREDIT, wTO, wACCOUNT, idB>>, SP),
      join(<<wCREDIT, tFive, cUSD, wTO, wACCOUNT, idB,
             wFOR, wCREDIT, wFROM, wACCOUNT, idA>>, SP),
      join(DebitTokens(tFive, cUSD, idA, idB, <<dNextYear>>), SP),
      join(DebitTokens(tFive, cUSD, idA, idB, <<<<"o","n">>, dNextYear>>), SP),
      join(DebitTokens(tFive, cUSD, idA, idB, <<wON, dNextYear, dNextYear>>), SP) }

Requests == {[accounts |-> l, instruction |-> i] : l \in AccountLists, i \in Instructions}

-----------------------------------------------------------------------------
(* The specification: a request arrives, the handler answers it *)

Init ==
    /\ payload \in Requests
    /\ now \in {[day |-> BaseDay, ms |-> 43200000]}
    /\ pc = "received"
    /\ response = Null
    /\ args = Null
    /\ ret = Null

handler ==
    /\ pc = "received"
    /\ response' = handlerResult(payload, now)
    /\ pc' = "done"
    /\ UNCHANGED <<payload, now, args, ret>>

Next == handler

Spec == Init /\ [][Next]_vars

-----------------------------------------------------------------------------
(* The same handler on requests that vary the date clause and the clock *)

DateClauses ==
    {<<>>} \cup {<<wON, d>> : d \in {dPast, dToday, dTomorrow, dNextYear, dFeb30,
                                     dYear50, dExpYear, dFarYear}}

DateRequests ==
    { [ accounts    |-> l,
        instruction |-> join(FormTokens(type, amt, cUSD, pair[1], pair[2], clause), SP) ] :
        l \in { <<Account(idA, bal, cUSD), Account(idB, MaxBalance \div 2, cUSD)>> :
                    bal \in {0, MaxBalance} }
              \cup { <<Account(idB, MaxBalance \div 2, cUSD), Account(idA, MaxBalance, cLowUSD)>> },
        type \in {wDEBIT, wCREDIT},
        amt \in {tFive, tTwenty},
        pair \in {<<idA, idB>>, <<idB, idA>>},
        clause \in DateClauses }

InitDates ==
    /\ payload \in DateRequests
    /\ now \in Clocks
    /\ pc = "received"
    /\ response = Null
    /\ args = Null
    /\ ret = Null

SpecDates == InitDates /\ [][Next]_vars

-----------------------------------------------------------------------------
(* The grammar parser on its own: both sentence forms of one transfer *)

NoRequest ==
    /\ payload = Null
    /\ now = [day |-> BaseDay, ms |-> 0]
    /\ response = Null

SymInputs ==
    [ d      : {idA, idB, idUpA, idBang, wON, wFROM},
      c      : {idA, idB, idUpA, idBang, wON, wFROM},
      amt    : {tFive, tOneHalf, tMinus, <<"x">>},
      cur    : {cUSD, cLowUSD, cEUR},
      clause : {<<>>, <<wON, dNextYear>>, <<wON, dFeb30>>} ]

InitSym ==
    /\ NoRequest
    /\ args \in SymInputs
    /\ pc = "received"
    /\ ret = Null

parseBothForms ==
    /\ pc = "received"
    /\ ret' = [ debit  |-> parseInstructionParts(
                              DebitTokens(args.amt, args.cur, args.d, args.c, args.clause)),
                credit |-> parseInstructionParts(
                              CreditTokens(args.amt, args.cur, args.d, args.c, args.clause)) ]
    /\ pc' = "done"
    /\ UNCHANGED <<payload, now, response, args>>

NextSym == parseBothForms

SpecSym == InitSym /\ [][NextSym]_vars

-----------------------------------------------------------------------------
(* The grammar parser on an instruction and on a re-cased spelling of it *)

\* String.prototype.toLowerCase on ASCII letters (used to spell the inputs)
LowerChar(ch) ==
    IF isUpper(ch) THEN LowerLetters[CHOOSE i \in 1..26 : UpperLetters[i] = ch] ELSE ch

toLowerCase(s) == [i \in 1..Len(s) |-> LowerChar(s[i])]

\* A keyword re-spelled: all lower case, or lower case after the first letter
reCase(word, style) ==
    IF style = "lower" THEN toLowerCase(word)
    ELSE <<word[1]>> \o toLowerCase(Tail(word))

\* The positions of the keyword tokens of a well-formed instruction
keywordPositions(tokens) ==
    {1, 4, 5, 7, 8, 9, 10} \cup (IF Len(tokens) > 11 THEN {Len(tokens) - 1} ELSE {})

CaseBases ==
    { FormTokens(type, amt, cUSD, d, idB, clause) :
        type \in {wDEBIT, wCREDIT}, amt \in {tFive, tOneHalf}, d \in {idA, idUpA},
        clause \in {<<>>, <<wON, dNextYear>>} }

\* Each base with one keyword, or all of them, re-spelled
CaseInputs ==
    UNION { { [ base    |-> b,
                variant |-> [i \in 1..Len(b) |->
                                IF i \in K THEN reCase(b[i], style) ELSE b[i]] ] :
                K \in {{k} : k \in keywordPositions(b)} \cup {keywordPositions(b)},
                style \in {"lower", "title"} } :
            b \in CaseBases }

InitCase ==
    /\ NoRequest
    /\ args \in CaseInputs
    /\ pc = "received"
    /\ ret = Null

parseBothSpellings ==
    /\ pc = "received"
    /\ ret' = [ base    |-> parseInstructionParts(args.base),
                variant |-> parseInstructionParts(args.variant) ]
    /\ pc' = "done"
    /\ UNCHANGED <<payload, now, response, args>>

NextCase == parseBothSpellings

SpecCase == InitCase /\ [][NextCase]_vars

-----------------------------------------------------------------------------
(* The grammar parser on token lists of every length around the band *)

MinTokens == 9

MaxExtraTokens == 3

wSEND == <<"S","E","N","D">>

ParseBases ==
    { FormTokens(type, tFive, cUSD, d, c, <<>>) :
        type \in {wDEBIT, wCREDIT, wSEND},
        d \in {idA, wON},
        c \in {idB, wON, <<"o","n">>} }

Fixed(S, n) == {q \in SeqsUpTo(S, n) : Len(q) = n}

TokenLists ==
    { SubSeq(b \o x, 1, n) :
        b \in ParseBases,
        x \in Fixed({wON, dNextYear, idA}, MaxExtraTokens),
        n \in MinTokens..(11 + MaxExtraTokens) }

InitParse ==
    /\ NoRequest
    /\ args \in TokenLists
    /\ pc = "received"
    /\ ret = Null

parseTokens ==
    /\ pc = "received"
    /\ ret' = parseInstructionParts(args)
    /\ pc' = "done"
    /\ UNCHANGED <<payload, now, response, args>>

NextParse == parseTokens

SpecParse == InitParse /\ [][NextParse]_vars

-----------------------------------------------------------------------------
(* The stages after account resolution on their own: the semantic checks, *)
(* the account checks and the execution on the two involved accounts      *)

CurrencySpellings ==
    {cUSD, cLowUSD, <<"U","s","d">>, cGBP, <<"g","b","p">>, cEUR}

StageInputs ==
    { [ instructionData |->
            parseInstructionParts(FormTokens(type, tFive, cur, idA, idB, clause)).value,
        accounts |-> IF swap THEN <<Account(idB, 0, cb), Account(idA, bal, ca)>>
                     ELSE <<Account(idA, bal, ca), Account(idB, 0, cb)>> ] :
        type \in {wDEBIT, wCREDIT},
        cur \in {cUSD, cLowUSD, cGBP},
        clause \in {<<>>, <<wON, dNextYear>>},
        ca \in CurrencySpellings,
        cb \in CurrencySpellings,
        bal \in {0, MaxBalance},
        swap \in BOOLEAN }

InitStage ==
    /\ NoRequest
    /\ args \in StageInputs
    /\ pc = "received"
    /\ ret = Null

runStages ==
    /\ pc = "received"
    /\ ret' = validateAndExecute(args.instructionData, args.accounts, now)
    /\ pc' = "done"
    /\ UNCHANGED <<payload, now, response, args>>

NextStage == runStages

SpecStage == InitStage /\ [][NextStage]_vars

-----------------------------------------------------------------------------
(* What the claims speak about *)

\* The request as the interpreter reads it: the tokens, the parse, the accounts
reqParts == getPaymentInstructionParts(validate(payload).instruction)

reqParse == parseInstructionParts(reqParts)

reqAccounts == validate(payload).accounts

returned == pc = "done" /\ response.kind = "returned"

threw == pc = "done" /\ response.kind = "threw"

\* The entry of an accounts list located by id
entryOf(accounts, id) == find(accounts, id.v)

\* C1 (Conservation): in every response with status "successful", the entry
\* of the accounts list located by debit_account has balance_before - balance
\* = amount, and the entry located by credit_account has balance -
\* balance_before = amount.
C1_Conservation ==
    (returned /\ response.data.status = "successful") =>
        LET data   == response.data
            amount == IntOf(data.amount.v)
            debit  == entryOf(data.accounts, data.debit_account)
            credit == entryOf(data.accounts, data.credit_account)
        IN  /\ debit.balance_before - debit.balance = amount
            /\ credit.balance - credit.balance_before = amount

\* a successful transfer of a positive amount between the two accounts of a
\* three-account list
C1_Witness ==
    /\ returned
    /\ response.data.status = "successful"
    /\ IntOf(response.data.amount.v) > 0
    /\ Len(response.data.accounts) = 2
    /\ Len(payload.accounts) = 3

\* C2 (No mutation on failure): whenever the request ends in a thrown error,
\* the error has a context, and every entry of context.accounts has balance =
\* balance_before = the balance the request supplied for an account of that id.
C2_NoMutationOnFailure ==
    threw =>
        /\ response.context # Null
        /\ \A i \in DOMAIN response.context.v.accounts :
              LET e == response.context.v.accounts[i]
              IN  /\ e.balance = e.balance_before
                  /\ \E k \in DOMAIN payload.accounts :
                        /\ trim(payload.accounts[k].id) = e.id
                        /\ payload.accounts[k].balance = e.balance

\* an execution error (insufficient funds) whose context lists accounts with
\* a positive balance
C2_Witness ==
    /\ threw
    /\ response.code = StatusCode.INSUFFICIENT_FUNDS
    /\ \E i \in DOMAIN response.context.v.accounts :
          response.context.v.accounts[i].balance > 0

\* The request passes every check before the funds check
otherwiseValid ==
    /\ reqParse.isOk
    /\ resolveInstructionAccounts(reqAccounts, reqParse.value).isOk
    /\ validateInstructionData(reqParse.value).isOk
    /\ LET involved == resolveInstructionAccounts(reqAccounts, reqParse.value).value
       IN  /\ validateInvolvedAccounts(involved).isOk
           /\ reqParse.value.currency = involved[1].currency

\* The balance the request supplies for the debit account (located by id)
debitBalance ==
    find(reqAccounts, reqParse.value.debitAccountId).balance

\* C5 (Insufficient funds): whenever an otherwise valid instruction names a
\* debit account whose supplied balance is less than the amount, the request
\* fails with INSUFFICIENT_FUNDS (AC01), whether or not it carries a date and
\* whatever that date is; it is never reported pending or successful.
C5_InsufficientFunds ==
    (pc = "done" /\ otherwiseValid
        /\ numGreater(reqParse.value.amount, debitBalance)) =>
        /\ response.kind = "threw"
        /\ response.code = StatusCode.INSUFFICIENT_FUNDS

\* a future-dated instruction refused for insufficient funds
C5_Witness ==
    /\ threw
    /\ response.code = StatusCode.INSUFFICIENT_FUNDS
    /\ reqParse.value.date = Some(dNextYear)
    /\ isAfterToday(validateDate(dNextYear).value, now)

\* The all-null context of a syntax error
syntaxErrorContext(ctx) ==
    /\ ctx.type = Null
    /\ ctx.amount = Null
    /\ ctx.currency = Null
    /\ ctx.debit_account = Null
    /\ ctx.credit_account = Null
    /\ ctx.execute_by = Null
    /\ ctx.status = "failed"
    /\ ctx.accounts = <<>>

\* C6 (Syntax-error regime): a request whose instruction the grammar parser
\* rejects ends in a thrown error with the parser's code (SY01 or SY03), and
\* every thrown error with code SY01 or SY03 carries a context whose type,
\* amount, currency, debit_account, credit_account and execute_by are null,
\* whose status is "failed" and whose accounts list is empty, whatever the
\* request's account list holds.
C6_SyntaxErrorRegime ==
    /\ (pc = "done" /\ isErr(reqParse)) =>
          /\ response.kind = "threw"
          /\ response.code = reqParse.error.code
          /\ response.code \in {"SY01", "SY03"}
    /\ (threw /\ response.code \in {"SY01", "SY03"}) =>
          /\ response.context # Null
          /\ syntaxErrorContext(response.context.v)
          /\ response.context.v.status_code = response.code

\* a missing-keyword error on a request that supplies a full account list
C6_Witness ==
    /\ threw
    /\ response.code = "SY01"
    /\ Len(payload.accounts) = MaxAccounts
    /\ response.context.v.accounts = <<>>

\* The instruction's date as the calendar date its three numbers name
reqDate ==
    LET pieces == split(reqParse.value.date.v, "-")
    IN  [y |-> Number(pieces[1]), m |-> Number(pieces[2]), d |-> Number(pieces[3])]

\* The calendar date of the clock reading (UTC)
today == CivilFromDays(now.day)

\* The instruction's date is a calendar day strictly after today
dateAfterToday ==
    \/ numGreater(reqDate.y, today.y)
    \/ reqDate.y = Normalize(today.y, 0) /\ numGreater(reqDate.m, today.m)
    \/ reqDate.y = Normalize(today.y, 0) /\ reqDate.m = Normalize(today.m, 0)
          /\ numGreater(reqDate.d, today.d)

\* C3 (Timing rule): for every request that passes all validation and the
\* funds check, the result is "pending" with code AP02 if and only if a date
\* was supplied and it is strictly after the current UTC calendar day;
\* otherwise it is "successful" with code AP00.
C3_TimingRule ==
    returned =>
        LET deferred == reqParse.value.date # Null /\ dateAfterToday
        IN  IF deferred
            THEN /\ response.data.status = "pending"
                 /\ response.data.status_code = "AP02"
            ELSE /\ response.data.status = "successful"
                 /\ response.data.status_code = "AP00"

\* The instruction's date written YYYY-MM-DD
reqDateYMD ==
    padDigits(IntOf(reqDate.y), 4) \o <<"-">> \o padDigits(IntOf(reqDate.m), 2)
        \o <<"-">> \o padDigits(IntOf(reqDate.d), 2)

\* C4 (Result invariant): every result with status "successful" has
\* execute_by = null; every result with status "pending" has execute_by equal
\* to the instruction's date in YYYY-MM-DD form and balance = balance_before
\* in every account entry.
C4_ResultInvariant ==
    returned =>
        /\ response.data.status = "successful" => response.data.execute_by = Null
        /\ response.data.status = "pending" =>
              /\ response.data.execute_by = Some(reqDateYMD)
              /\ \A i \in DOMAIN response.data.accounts :
                    response.data.accounts[i].balance
                        = response.data.accounts[i].balance_before

\* The fields of a parsed instruction other than its transaction type
sameTransfer(p, q) ==
    /\ p.debitAccountId = q.debitAccountId
    /\ p.creditAccountId = q.creditAccountId
    /\ p.amount = q.amount
    /\ p.currency = q.currency
    /\ p.date = q.date

\* C7 (Grammar symmetry): for every debit id d, credit id c, amount token and
\* currency token, with or without the same trailing ON <date> clause, the
\* DEBIT-led and the CREDIT-led sentence both parse, to records with the same
\* debitAccountId, creditAccountId, amount, currency and date, the first of
\* type DEBIT and the second of type CREDIT.
C7_GrammarSymmetry ==
    pc = "done" =>
        /\ ret.debit.isOk
        /\ ret.credit.isOk
        /\ sameTransfer(ret.debit.value, ret.credit.value)
        /\ ret.debit.value.transactionType = wDEBIT
        /\ ret.credit.value.transactionType = wCREDIT

\* both forms parsed for two different ids and a date clause
C7_Witness ==
    /\ pc = "done"
    /\ args.d = idA
    /\ args.c = idB
    /\ args.clause # <<>>
    /\ ret.credit.isOk
    /\ ret.credit.value.debitAccountId = idA
    /\ ret.credit.value.date = Some(dNextYear)

\* C8 (Keyword case-insensitivity): changing only the letter case of keyword
\* tokens, the ON of the date clause included, changes neither whether the
\* instruction parses nor the parsed record.
C8_KeywordCaseInsensitive ==
    pc = "done" => ret.variant = ret.base

\* C10 (Token-count rule): an instruction of fewer than 11 or more than 13
\* tokens fails with MALFORMED_INSTRUCTION, and every instruction of exactly
\* 12 tokens fails with MISSING_REQUIRED_KEYWORD.
C10_TokenCountRule ==
    pc = "done" =>
        /\ (Len(args) < 11 \/ Len(args) > 13) =>
              (isErr(ret) /\ ret.error.code = StatusCode.MALFORMED_INSTRUCTION)
        /\ Len(args) = 12 =>
              (isErr(ret) /\ ret.error.code = StatusCode.MISSING_REQUIRED_KEYWORD)

\* The instruction and both involved accounts name one supported currency,
\* in whatever letter case
sameSupportedCurrency ==
    /\ validateCurrency(args.instructionData.currency).isOk
    /\ toUpperCase(args.accounts[1].currency) = toUpperCase(args.instructionData.currency)
    /\ toUpperCase(args.accounts[2].currency) = toUpperCase(args.instructionData.currency)

-----------------------------------------------------------------------------
(* The stages after account resolution on instructions and accounts that   *)
(* break several semantic rules at once                                    *)

OrderInputs ==
    { [ instructionData |->
            parseInstructionParts(FormTokens(wDEBIT, amt, cur, d, c, clause)).value,
        accounts |-> <<Account(d, MaxBalance, ca), Account(c, 0, cb)>> ] :
        d \in {idA, idBang},
        c \in {idB, idA},
        amt \in {tFive, tOneHalf},
        cur \in {cUSD, cEUR},
        clause \in {<<>>, <<wON, dNextYear>>, <<wON, dFeb30>>},
        ca \in {cUSD, cGBP, cEUR},
        cb \in {cUSD, cGBP, cEUR} }

InitOrder ==
    /\ NoRequest
    /\ args \in OrderInputs
    /\ pc = "received"
    /\ ret = Null

SpecOrder == InitOrder /\ [][NextStage]_vars

\* The semantic rules an input of the stage breaks, numbered as the semantic
\* validator lists them: 1 account-id charset, 2 same account, 3 amount,
\* 4 currency support (instruction and accounts), 5 cross-account currency
\* agreement, 6 date format
brokenRules ==
    LET data == args.instructionData
        accs == args.accounts
    IN  {n \in 1..6 :
          \/ n = 1 /\ (\/ isErr(validateAccountId(data.debitAccountId))
                        \/ isErr(validateAccountId(data.creditAccountId))
                        \/ \E i \in DOMAIN accs : isErr(validateAccountId(accs[i].id)))
          \/ n = 2 /\ data.debitAccountId = data.creditAccountId
          \/ n = 3 /\ (~isInteger(data.amount) \/ ~numGreater(data.amount, 0))
          \/ n = 4 /\ (\/ isErr(validateCurrency(data.currency))
                        \/ \E i \in DOMAIN accs : isErr(validateCurrency(accs[i].currency)))
          \/ n = 5 /\ accs[1].currency # accs[2].currency
          \/ n = 6 /\ data.date # Null /\ isErr(validateDate(data.date.v))}

\* The status code of each semantic rule
ruleCode ==
    <<StatusCode.INVALID_ACCOUNT_ID, StatusCode.SAME_ACCOUNT_ERROR, StatusCode.INVALID_AMOUNT,
      StatusCode.UNSUPPORTED_CURRENCY, StatusCode.CURRENCY_MISMATCH,
      StatusCode.INVALID_DATE_FORMAT>>

earliestBrokenRule == CHOOSE n \in brokenRules : \A k \in brokenRules : n <= k

\* C11 (Semantic check order): when a parsed instruction with both accounts
\* resolved breaks several semantic rules at once, the error reported is that
\* of the earliest broken rule in the order account-id charset, same account,
\* amount, currency support, cross-account currency agreement, date format.
C11_SemanticCheckOrder ==
    (pc = "done" /\ brokenRules # {}) =>
        /\ ret.kind = "threw"
        /\ ret.code = ruleCode[earliestBrokenRule]

-----------------------------------------------------------------------------
(* The account resolver on its own *)

ResolveInputs ==
    { [ accounts        |-> l,
        instructionData |->
            parseInstructionParts(FormTokens(wDEBIT, tFive, cUSD, pair[1], pair[2], <<>>)).value ] :
        l \in AccountLists,
        pair \in {<<idA, idB>>, <<idB, idA>>, <<idA, idA>>, <<idA, idZ>>, <<idZ, idA>>,
                  <<idA, idBang>>} }

InitResolve ==
    /\ NoRequest
    /\ args \in ResolveInputs
    /\ pc = "received"
    /\ ret = Null

resolveAccounts ==
    /\ pc = "received"
    /\ ret' = resolveInstructionAccounts(args.accounts, args.instructionData)
    /\ pc' = "done"
    /\ UNCHANGED <<payload, now, response, args>>

NextResolve == resolveAccounts

SpecResolve == InitResolve /\ [][NextResolve]_vars

\* A list of exactly two accounts of the request's list, one with the debit
\* id and the other with the credit id
exactlyTheTwoAccounts(involved, data, allAccounts) ==
    /\ Len(involved) = 2
    /\ \E i, j \in 1..2 :
          /\ i # j
          /\ involved[i].id = data.debitAccountId
          /\ involved[j].id = data.creditAccountId
    /\ \A i \in 1..2 : \E k \in DOMAIN allAccounts : involved[i] = allAccounts[k]

\* C12 (Account resolution): for every account list and parsed instruction
\* the resolver returns either ACCOUNT_NOT_FOUND or a list of exactly two
\* accounts, one whose id is the debit id and one whose id is the credit id,
\* both taken from the request's account list.
C12_AccountResolution ==
    pc = "done" =>
        \/ isErr(ret) /\ ret.error.code = StatusCode.ACCOUNT_NOT_FOUND
        \/ ~isErr(ret) /\ exactlyTheTwoAccounts(ret.value, args.instructionData, args.accounts)

-----------------------------------------------------------------------------
(* Error contexts after a successful parse *)

\* The context echoes the parsed instruction's type, amount, currency and ids
echoesParsedInstruction(ctx, data) ==
    /\ ctx.type = Some(data.transactionType)
    /\ ctx.amount = Some(data.amount)
    /\ ctx.currency = Some(data.currency)
    /\ ctx.debit_account = Some(data.debitAccountId)
    /\ ctx.credit_account = Some(data.creditAccountId)

\* C13 (Error context after a successful parse): every failure with a code
\* other than SY01/SY03 carries a context whose type, amount, currency,
\* debit_account and credit_account are the parsed instruction's values and
\* whose execute_by is null only when the instruction carried no date clause.
C13_ErrorContextAfterParse ==
    (threw /\ response.code \notin {"SY01", "SY03"}) =>
        /\ response.context # Null
        /\ echoesParsedInstruction(response.context.v, reqParse.value)
        /\ (response.context.v.execute_by = Null) <=> (reqParse.value.date = Null)

-----------------------------------------------------------------------------
(* Stage precedence: the handler on the instructions of Spec and on account *)
(* lists short enough to lack one or both of the accounts an instruction    *)
(* names                                                                    *)

PrecedenceRequests ==
    { [accounts |-> l, instruction |-> i] :
        l \in SeqsUpTo(AccountPool, MaxAccounts - 1) \ {<<>>}, i \in Instructions }

InitPrecedence ==
    /\ payload \in PrecedenceRequests
    /\ now \in {[day |-> BaseDay, ms |-> 43200000]}
    /\ pc = "received"
    /\ response = Null
    /\ args = Null
    /\ ret = Null

SpecPrecedence == InitPrecedence /\ [][Next]_vars

\* No account of the list has this id
absent(accounts, id) == \A i \in DOMAIN accounts : accounts[i].id # id

\* The semantic validator's verdict on a parsed instruction whose accounts
\* are on the list: the instruction checks, then the account checks
semanticCheck(data, accounts) ==
    LET dataCheck == validateInstructionData(data)
    IN  IF isErr(dataCheck) THEN dataCheck
        ELSE validateInvolvedAccounts(resolveInstructionAccounts(accounts, data).value)

\* The response is the error of this failed check
reports(check) ==
    /\ response.kind = "threw"
    /\ response.code = check.error.code
    /\ response.message = Some(check.error.message)

\* C14 (Stage precedence): the pipeline reports the error of the earliest
\* failing stage in the order grammar parser, account resolver, semantic
\* validator, execution engine.  If the instruction parses and a named account
\* is absent from the list, the outcome is ACCOUNT_NOT_FOUND (AC03) with
\* context.accounts = [] and the missing id is the debit id if that is absent,
\* otherwise the credit id, whatever else is wrong with the instruction.
C14_StagePrecedence ==
    pc = "done" =>
        LET parse    == reqParse
            accounts == reqAccounts
            data     == parse.value
            check    == semanticCheck(data, accounts)
        IN  IF isErr(parse) THEN reports(parse)
            ELSE IF absent(accounts, data.debitAccountId) \/ absent(accounts, data.creditAccountId)
            THEN /\ response.kind = "threw"
                 /\ response.code = StatusCode.ACCOUNT_NOT_FOUND
                 /\ response.context.v.accounts = <<>>
                 /\ response.message =
                        Some(PaymentMessage("ACCOUNT_NOT_FOUND",
                                            IF absent(accounts, data.debitAccountId)
                                            THEN data.debitAccountId
                                            ELSE data.creditAccountId))
            ELSE IF isErr(check) THEN reports(check)
            ELSE \/ response.kind = "returned"
                 \/ /\ response.kind = "threw"
                    /\ response.code \in {StatusCode.CURRENCY_MISMATCH,
                                          StatusCode.INSUFFICIENT_FUNDS}

\* an instruction with a fractional amount, an unsupported currency, an
\* invalid date and a credit id with a forbidden character that is not on the
\* list: answered ACCOUNT_NOT_FOUND for that id
C14_Witness ==
    /\ threw
    /\ response.code = StatusCode.ACCOUNT_NOT_FOUND
    /\ response.message = Some(PaymentMessage("ACCOUNT_NOT_FOUND", idBang))
    /\ response.context.v.accounts = <<>>
    /\ ~isInteger(reqParse.value.amount)
    /\ isErr(validateCurrency(reqParse.value.currency))
    /\ reqParse.value.date = Some(dFeb30)
    /\ Len(reqAccounts) = MaxAccounts - 1

-----------------------------------------------------------------------------
(* The date validator on its own *)

YearParts ==
    { <<"2","0","2","4">>, <<"2","0","2","6">>, <<"2","0","2","7">>, <<"1","9","0","0">>,
      <<"2","0","0","0">>, <<"0","1","0","0">>, <<"0","0","5","0">>, <<"0","0","0","4">>,
      <<"0","0","0","0">>, <<"1","e","0","5">>, <<"3","e","0","5">>, <<"2","0",".","5">>,
      <<"2","0","a","7">> }

MonthParts ==
    { <<"0","1">>, <<"0","2">>, <<"0","4">>, <<"1","2">>, <<"1","3">>, <<"0","0">>,
      <<"+","1">>, <<"1","e">> }

DayParts ==
    { <<"0","1">>, <<"2","8">>, <<"2","9">>, <<"3","0">>, <<"3","1">>, <<"3","2">>,
      <<"0","0">>, <<".","5">> }

\* Date strings of the YYYY-MM-DD shape, and some of another length or with
\* other separators
DateStrings ==
    { y \o <<"-">> \o mo \o <<"-">> \o d : y \in YearParts, mo \in MonthParts, d \in DayParts }
    \cup
    { <<>>,
      <<"2","0","2","7","-","1","-","1">>,
      <<"2","0","2","7","-","0","1","-","0","1","1">>,
      <<"2","0","2","7","/","0","1","/","0","1">>,
      <<"2","0","2","7","0","-","1","-","0","1">>,
      <<"2","0","2","7","-","0","1","0","-","1">>,
      <<"-","0","0","1","-","0","1","-","0","1">> }

InitValidateDate ==
    /\ NoRequest
    /\ args \in DateStrings
    /\ pc = "received"
    /\ ret = Null

callValidateDate ==
    /\ pc = "received"
    /\ ret' = validateDate(args)
    /\ pc' = "done"
    /\ UNCHANGED <<payload, now, response, args>>

NextValidateDate == callValidateDate

SpecValidateDate == InitValidateDate /\ [][NextValidateDate]_vars

\* Gregorian leap years, and the number of days of a month of a year
isLeapYear(y) == y % 4 = 0 /\ (y % 100 # 0 \/ y % 400 = 0)

daysInMonth(y, m) ==
    IF m = 2 THEN (IF isLeapYear(y) THEN 29 ELSE 28)
    ELSE IF m \in {4, 6, 9, 11} THEN 30
    ELSE 31

\* The string has 10 characters with hyphens at positions 4 and 7 (from 0)
hasDateShape(s) == Len(s) = 10 /\ s[5] = "-" /\ s[8] = "-"

\* The year, month and day parts of a string of that shape, as numbers
yearPart(s)  == Number(SubSeq(s, 1, 4))
monthPart(s) == Number(SubSeq(s, 6, 7))
dayPart(s)   == Number(SubSeq(s, 9, 10))

\* The parts are integers, the month is in 1..12 and the day is in
\* 1..(days of that month in that year)
isCalendarDay(s) ==
    /\ isInteger(yearPart(s)) /\ isInteger(monthPart(s)) /\ isInteger(dayPart(s))
    /\ ~numLess(monthPart(s), 1) /\ ~numGreater(monthPart(s), 12)
    /\ ~numLess(dayPart(s), 1)
    /\ ~numGreater(dayPart(s), daysInMonth(IntOf(yearPart(s)), IntOf(monthPart(s))))

\* UTC midnight of the calendar day the string names
utcMidnight(s) ==
    [ valid |-> TRUE,
      day   |-> DaysFromCivil(IntOf(yearPart(s)), IntOf(monthPart(s)), IntOf(dayPart(s))),
      ms    |-> 0 ]

\* C15 (Date validation): validateDate accepts a 10-character string with
\* hyphens at positions 4 and 7 if and only if its year, month and day parts
\* are integers with the month in 1..12 and the day in 1..(days of that month
\* in that year, February having 29 days exactly in Gregorian leap years);
\* every other string fails with INVALID_DATE_FORMAT, and an accepted date is
\* UTC midnight of that same calendar day.
C15_DateValidation ==
    pc = "done" =>
        IF hasDateShape(args) /\ isCalendarDay(args)
        THEN ~isErr(ret) /\ ret.value = utcMidnight(args)
        ELSE isErr(ret) /\ ret.error.code = StatusCode.INVALID_DATE_FORMAT

-----------------------------------------------------------------------------
(* No overdraft *)

\* No entry of a list of account entries has a negative balance
noNegativeBalance(accounts) == \A i \in DOMAIN accounts : accounts[i].balance >= 0

\* C16 (No overdraft): for every request whose supplied balances are all
\* >= 0, no account entry of a returned result (successful or pending) or of
\* an error context has a negative balance; in particular a successful
\* execution leaves the debit account with a balance >= 0.
C16_NoOverdraft ==
    (pc = "done" /\ noNegativeBalance(payload.accounts)) =>
        /\ returned =>
              /\ noNegativeBalance(response.data.accounts)
              /\ response.data.status = "successful" =>
                    entryOf(response.data.accounts, response.data.debit_account).balance >= 0
        /\ (threw /\ response.context # Null) =>
              noNegativeBalance(response.context.v.accounts)

\* a successful transfer that takes the whole balance of the debit account
C16_Witness ==
    /\ returned
    /\ noNegativeBalance(payload.accounts)
    /\ response.data.status = "successful"
    /\ entryOf(response.data.accounts, response.data.debit_account).balance = 0
    /\ entryOf(response.data.accounts, response.data.debit_account).balance_before > 0

====
